---- MODULE Spec2Model ----
(***************************************************************************)
(* Black-76 option API: expiry resolution (data_persistence/models.py),    *)
(* request validation (data_persistence/schemas.py), the record store      *)
(* (data_persistence/repo.py), the pricing service (pv_service.py) and the *)
(* HTTP handlers (black76_api.py).                                         *)
(*                                                                         *)
(* Conventions.                                                            *)
(*  - A Python str is a sequence of one-character strings.                 *)
(*  - A date is a record [y, m, d]; Ordinal is date.toordinal().           *)
(*  - A datetime is [day |-> ordinal, tod |-> part of the day elapsed];    *)
(*    tod = 0 is midnight.                                                 *)
(*  - Money is in cents, rates and volatilities in hundredths, the time    *)
(*    to expiry in hundredths of a year.                                   *)
(*  - A Python call returns [kind |-> "ok", ...] or                        *)
(*    [kind |-> "raise", exc |-> class, msg |-> message].                  *)
(***************************************************************************)
EXTENDS Integers, Sequences, FiniteSets, TLC

VARIABLES now, store, resp, call, memo

vars == <<now, store, resp, call, memo>>

----------------------------------------------------------------------------
(* Python str methods over the characters the model uses.                  *)

LowerChars == <<"a","b","c","d","e","f","g","h","i","j","k","l","m",
                "n","o","p","q","r","s","t","u","v","w","x","y","z">>

UpperChars == <<"A","B","C","D","E","F","G","H","I","J","K","L","M",
                "N","O","P","Q","R","S","T","U","V","W","X","Y","Z">>

DigitChars == <<"0","1","2","3","4","5","6","7","8","9">>

IndexIn(c, chars) ==
    IF \E i \in 1..Len(chars) : chars[i] = c
    THEN CHOOSE i \in 1..Len(chars) : chars[i] = c
    ELSE 0

\* the upper-case letter of each lower-case letter, and the converse
UpperMap ==
    [c \in {LowerChars[i] : i \in 1..26} |-> UpperChars[IndexIn(c, LowerChars)]]

LowerMap ==
    [c \in {UpperChars[i] : i \in 1..26} |-> LowerChars[IndexIn(c, UpperChars)]]

UpperChar(c) == IF c \in DOMAIN UpperMap THEN UpperMap[c] ELSE c

LowerChar(c) == IF c \in DOMAIN LowerMap THEN LowerMap[c] ELSE c

\* str.upper()
StrUpper(s) == [i \in 1..Len(s) |-> UpperChar(s[i])]

\* str.casefold(); on the ASCII letters it is str.lower()
StrCasefold(s) == [i \in 1..Len(s) |-> LowerChar(s[i])]

\* str.capitalize(): first character upper-cased, the rest lower-cased
StrCapitalize(s) ==
    [i \in 1..Len(s) |-> IF i = 1 THEN UpperChar(s[i]) ELSE LowerChar(s[i])]

\* s[:n]
StrPrefix(s, n) == SubSeq(s, 1, IF Len(s) < n THEN Len(s) ELSE n)

\* s[-n:]
StrSuffix(s, n) == SubSeq(s, IF Len(s) < n THEN 1 ELSE Len(s) - n + 1, Len(s))

\* str.strip() of blanks
RECURSIVE StripLeft(_)
StripLeft(s) ==
    IF s # <<>> /\ Head(s) = " " THEN StripLeft(Tail(s)) ELSE s

RECURSIVE StripRight(_)
StripRight(s) ==
    IF s # <<>> /\ s[Len(s)] = " " THEN StripRight(SubSeq(s, 1, Len(s) - 1)) ELSE s

IsDigit(c) == IndexIn(c, DigitChars) > 0

\* the literals int() accepts without a sign: digits, single underscores
\* between digits, blanks around
IntLiteralOK(s) ==
    LET t == StripLeft(StripRight(s)) IN
      /\ t # <<>>
      /\ \A i \in 1..Len(t) :
            \/ IsDigit(t[i])
            \/ /\ t[i] = "_"
               /\ 1 < i /\ i < Len(t)
               /\ IsDigit(t[i-1]) /\ IsDigit(t[i+1])

RECURSIVE DigitsValue(_, _)
DigitsValue(t, acc) ==
    IF t = <<>> THEN acc
    ELSE IF Head(t) = "_" THEN DigitsValue(Tail(t), acc)
    ELSE DigitsValue(Tail(t), 10 * acc + (IndexIn(Head(t), DigitChars) - 1))

\* int(s)
PyInt(s) ==
    IF IntLiteralOK(s)
    THEN [kind |-> "ok", value |-> DigitsValue(StripLeft(StripRight(s)), 0)]
    ELSE [kind |-> "raise", exc |-> "ValueError",
          msg |-> "invalid literal for int() with base 10"]

----------------------------------------------------------------------------
(* calendar and datetime                                                   *)

IsLeap(y) == y % 4 = 0 /\ (y % 100 # 0 \/ y % 400 = 0)

MonthDays == <<31, 28, 31, 30, 31, 30, 31, 31, 30, 31, 30, 31>>

\* calendar.monthrange(year, month)[1]
get_last_day_of_month(year, month) ==
    IF month = 2 /\ IsLeap(year) THEN 29 ELSE MonthDays[month]

RECURSIVE DaysBeforeMonth(_, _)
DaysBeforeMonth(y, m) ==
    IF m = 1 THEN 0
    ELSE DaysBeforeMonth(y, m - 1) + get_last_day_of_month(y, m - 1)

DaysBeforeYear(y) ==
    (y - 1) * 365 + ((y - 1) \div 4) - ((y - 1) \div 100) + ((y - 1) \div 400)

\* date.toordinal()
Ordinal(date) == DaysBeforeYear(date.y) + DaysBeforeMonth(date.y, date.m) + date.d

\* date.weekday(): Monday is 0, Sunday is 6
Weekday(date) == (Ordinal(date) + 6) % 7

\* date - timedelta(days=1)
MinusOneDay(date) ==
    IF date.d > 1 THEN [date EXCEPT !.d = date.d - 1]
    ELSE IF date.m > 1
         THEN [y |-> date.y, m |-> date.m - 1,
               d |-> get_last_day_of_month(date.y, date.m - 1)]
         ELSE [y |-> date.y - 1, m |-> 12, d |-> 31]

\* the comparison written datetime(y, m, d) < now
DatetimeLE_Strict(date, instant) ==
    \/ Ordinal(date) < instant.day
    \/ Ordinal(date) = instant.day /\ 0 < instant.tod

\* datetime(y, m, d) <= now
DatetimeLE(date, instant) ==
    \/ Ordinal(date) < instant.day
    \/ Ordinal(date) = instant.day /\ 0 <= instant.tod

----------------------------------------------------------------------------
(* data_persistence/models.py: FinancialOption                             *)

BRN == <<"B","R","N">>

HH == <<"H","H">>

\* the months table of get_month_and_year, keys in the order of their values
Months == << <<"J","a","n">>, <<"F","e","b">>, <<"M","a","r">>, <<"A","p","r">>,
             <<"M","a","y">>, <<"J","u","n">>, <<"J","u","l">>, <<"A","u","g">>,
             <<"S","e","p">>, <<"O","c","t">>, <<"N","o","v">>, <<"D","e","c">> >>

MsgInvalidCommodity == "Invalid commodity."

MsgPastExpiry == "Expiry date should be earlier than today."

\* get_month_and_year(date_str): (month, year), or the KeyError of the table
\* lookup, or the ValueError of int()
get_month_and_year(date_str) ==
    LET month_str == StrPrefix(date_str, 3)
        year_str  == <<"2","0">> \o StrSuffix(date_str, 2)
        key       == StrCapitalize(month_str)
        year      == PyInt(year_str)
    IN  IF IndexIn(key, Months) = 0
        THEN [kind |-> "raise", exc |-> "KeyError", msg |-> "month"]
        ELSE IF year.kind = "raise" THEN year
        ELSE [kind |-> "ok", month |-> IndexIn(key, Months), year |-> year.value]

\* ShiftMonth without the year_int -= 1 of the underflow blocks
ShiftMonth_KeepsYear(month_int, year_int, offset) ==
    IF month_int - offset < 1
    THEN [month |-> month_int - offset + 12, year |-> year_int]
    ELSE [month |-> month_int - offset, year |-> year_int]

\* the month_int -= offset / year_int -= 1 / month_int += 12 blocks
ShiftMonth(month_int, year_int, offset) ==
    IF month_int - offset < 1
    THEN [month |-> month_int - offset + 12, year |-> year_int - 1]
    ELSE [month |-> month_int - offset, year |-> year_int]

\* while last_day.weekday() >= 5: last_day -= timedelta(days=1)
RECURSIVE WalkBackWeekend(_)
WalkBackWeekend(last_day) ==
    IF Weekday(last_day) >= 5 THEN WalkBackWeekend(MinusOneDay(last_day))
    ELSE last_day

\* LastBusinessDay with the loop test weekday() > 5: only Sundays are left
LastBusinessDay_SundayOnly(year_int, month_int) ==
    LET last_day == [y |-> year_int, m |-> month_int,
                     d |-> get_last_day_of_month(year_int, month_int)]
    IN  IF Weekday(last_day) > 5 THEN MinusOneDay(last_day) ELSE last_day

\* the date get_last_business_day reaches before it compares it with now
LastBusinessDay(year_int, month_int) ==
    WalkBackWeekend([y |-> year_int, m |-> month_int,
                     d |-> get_last_day_of_month(year_int, month_int)])

\* get_last_business_day without its else branch: any commodity that is not
\* BRN gets the HH offset
get_last_business_day_NoElse(commodity, value, instant) ==
    LET my == get_month_and_year(value) IN
    IF my.kind = "raise" THEN my
    ELSE LET t == IF commodity = BRN THEN ShiftMonth(my.month, my.year, 2)
                  ELSE ShiftMonth(my.month, my.year, 1)
             last_day == LastBusinessDay(t.year, t.month)
         IN  IF DatetimeLE(last_day, instant)
             THEN [kind |-> "raise", exc |-> "ValueError", msg |-> MsgPastExpiry]
             ELSE [kind |-> "ok", date |-> last_day]

\* the @validates("expires_on") hook, on a record whose commodity is set:
\* "ok" carries the value given to _expiration_date
get_last_business_day(commodity, value, instant) ==
    LET my == get_month_and_year(value) IN
    IF my.kind = "raise" THEN my
    ELSE IF commodity # BRN /\ commodity # HH
    THEN [kind |-> "raise", exc |-> "ValueError", msg |-> MsgInvalidCommodity]
    ELSE LET t == IF commodity = BRN THEN ShiftMonth(my.month, my.year, 2)
                  ELSE ShiftMonth(my.month, my.year, 1)
             last_day == LastBusinessDay(t.year, t.month)
         IN  IF DatetimeLE(last_day, instant)
             THEN [kind |-> "raise", exc |-> "ValueError", msg |-> MsgPastExpiry]
             ELSE [kind |-> "ok", date |-> last_day]

----------------------------------------------------------------------------
(* pv_service.py: PVService                                                *)
(*                                                                         *)
(* Floating point. spot_price and volatility are positive in this model.   *)
(* A present value is                                                      *)
(*   [t |-> "num", cents |-> n]   a value IEEE arithmetic gives exactly,   *)
(*   [t |-> "nan"]                not a number,                            *)
(*   [t |-> "black76", ...]       round(., 2) of the closed form on finite *)
(*                                d1 and d2, named by its operands.        *)
(* The time to expiry is [h |-> hundredths, negzero |-> it is -0.0].       *)

MsgUnknownOptionType == "Unknown option type."

\* days / 365 cut down to hundredths, math.floor(. * 100) / 100, for round(., 2)
RoundedYears_Floors(days) ==
    [h |-> (100 * days) \div 365, negzero |-> FALSE]

\* round(days / 365, 2): days / 365 is never half-way between two hundredths
\* (200 * days = 365 * odd has no solution), so round() takes the nearest
RoundedYears(days) ==
    [h |-> (200 * days + 365) \div 730,
     negzero |-> days < 0 /\ (200 * days + 365) \div 730 = 0]

\* get_time_to_expiry with today taken from datetime.now() and the difference
\* from the two instants: timedelta.days floors, so the count drops by one
\* once the day has begun
get_time_to_expiry_FromInstant(expiry_date) ==
    RoundedYears(Ordinal(expiry_date) - now.day - (IF now.tod > 0 THEN 1 ELSE 0))

\* get_time_to_expiry(expiry_date); today = dt.date.today() is the clock's day
get_time_to_expiry(expiry_date) ==
    RoundedYears(Ordinal(expiry_date) - now.day)

\* d1_calc, as far as the result depends on it: "nan", "+inf", "-inf" or
\* "finite". strike # 0, spot > 0, volatility > 0.
\*   T < 0:    np.sqrt(T) is nan
\*   T = +0.0: log(spot/strike) / +0.0;  T = -0.0: log(spot/strike) / -0.0
D1Class(spot_price, strike_price, T) ==
    IF strike_price < 0 \/ T.h < 0 THEN "nan"
    ELSE IF T.h > 0 THEN "finite"
    ELSE IF spot_price = strike_price THEN "nan"
    ELSE IF (spot_price > strike_price) = ~T.negzero THEN "+inf"
    ELSE "-inf"

\* the divisor volatility * np.sqrt(time_to_expiry) of d1_calc, by class:
\* np.sqrt of a negative number is nan, of +0.0 and -0.0 is that zero
DivisorClass(volatility, T) ==
    IF T.h < 0 THEN "nan"
    ELSE IF T.h = 0 \/ volatility = 0 THEN "zero"
    ELSE "nonzero"

Num(cents) == [t |-> "num", cents |-> cents]

NaN == [t |-> "nan"]

ClosedForm(type, in, T) ==
    [t |-> "black76", type |-> type, spot_price |-> in.spot_price,
     strike_price |-> in.strike_price, interest_rate |-> in.interest_rate,
     volatility |-> in.volatility, T |-> T.h]

\* the put branch: strike * exp(-r T) * cdf(-d2) - spot * cdf(-d1), rounded;
\* d2 has the class of d1, exp(-r * 0.0) is 1, cdf(+inf) is 1, cdf(-inf) is 0
PutValue(in, T) ==
    LET c == D1Class(in.spot_price, in.strike_price, T) IN
    IF c = "nan" THEN NaN
    ELSE IF c = "+inf" THEN Num(0)
    ELSE IF c = "-inf" THEN Num(in.strike_price - in.spot_price)
    ELSE ClosedForm("put", in, T)

\* the call branch: spot * cdf(d1) - strike * exp(-r T) * cdf(d2), rounded
CallValue(in, T) ==
    LET c == D1Class(in.spot_price, in.strike_price, T) IN
    IF c = "nan" THEN NaN
    ELSE IF c = "+inf" THEN Num(in.spot_price - in.strike_price)
    ELSE IF c = "-inf" THEN Num(0)
    ELSE ClosedForm("call", in, T)

Put == <<"p","u","t">>

CallStr == <<"c","a","l","l">>

\* calculate_pv(pv_calculation_inputs): spot_price / strike_price is a division
\* of Python floats and is evaluated first, the option type is looked at last
calculate_pv(in) ==
    LET T == get_time_to_expiry(in.expiration_date) IN
    IF in.strike_price = 0
    THEN [kind |-> "raise", exc |-> "ZeroDivisionError",
          msg |-> "float division by zero"]
    ELSE IF StrCasefold(in.option_type) = Put
    THEN [kind |-> "ok", branch |-> "put", value |-> PutValue(in, T)]
    ELSE IF StrCasefold(in.option_type) = CallStr
    THEN [kind |-> "ok", branch |-> "call", value |-> CallValue(in, T)]
    ELSE [kind |-> "raise", exc |-> "ValueError", msg |-> MsgUnknownOptionType]

\* str(n) for n >= 0
RECURSIVE IntToStr(_)
IntToStr(n) ==
    IF n < 10 THEN <<DigitChars[n + 1]>>
    ELSE IntToStr(n \div 10) \o <<DigitChars[(n % 10) + 1]>>

\* schemas.FinancialOptionPresentValue.from_orm(option): the public fields,
\* id coerced to str, the four valuation fields at their defaults
FromOrm(option) ==
    [id |-> IntToStr(option.id), commodity |-> option.commodity,
     expires_on |-> option.expires_on, strike_price |-> option.strike_price,
     option_type |-> option.option_type,
     unit_of_measure |-> option.unit_of_measure,
     expiration_date |-> option.expiration_date,
     interest_rate |-> 0, volatility |-> 0, spot_price |-> 0, pv |-> Num(0)]

\* update_pv_for_single_option(option, interest_rate, volatility, spot_price)
update_pv_for_single_option(option, interest_rate, volatility, spot_price) ==
    LET present_value ==
          calculate_pv([expiration_date |-> option.expiration_date,
                        strike_price |-> option.strike_price,
                        option_type |-> option.option_type,
                        interest_rate |-> interest_rate,
                        volatility |-> volatility,
                        spot_price |-> spot_price])
    IN  IF present_value.kind = "raise" THEN present_value
        ELSE [kind |-> "ok",
              value |-> [option EXCEPT !.volatility = volatility,
                                       !.interest_rate = interest_rate,
                                       !.spot_price = spot_price,
                                       !.pv = present_value.value]]

\* the for loop of generate_pv_for_options from position i on
RECURSIVE PvLoop(_, _, _, _, _, _)
PvLoop(serialised, i, options_with_pv, interest_rate, volatility, spot_price) ==
    IF i > Len(serialised) THEN [kind |-> "ok", value |-> options_with_pv]
    ELSE LET res == update_pv_for_single_option(serialised[i], interest_rate,
                                                volatility, spot_price)
         IN  IF res.kind = "raise" THEN res
             ELSE PvLoop(serialised, i + 1, Append(options_with_pv, res.value),
                         interest_rate, volatility, spot_price)

\* the loop with options_with_pv.insert(0, res) for options_with_pv.append(res)
RECURSIVE PvLoop_Prepends(_, _, _, _, _, _)
PvLoop_Prepends(serialised, i, options_with_pv, interest_rate, volatility, spot_price) ==
    IF i > Len(serialised) THEN [kind |-> "ok", value |-> options_with_pv]
    ELSE LET res == update_pv_for_single_option(serialised[i], interest_rate,
                                                volatility, spot_price)
         IN  IF res.kind = "raise" THEN res
             ELSE PvLoop_Prepends(serialised, i + 1, <<res.value>> \o options_with_pv,
                                  interest_rate, volatility, spot_price)

\* the loop with the call wrapped in try/except: a failing record is left out
RECURSIVE PvLoop_SkipsFailures(_, _, _, _, _, _)
PvLoop_SkipsFailures(serialised, i, options_with_pv, interest_rate, volatility, spot_price) ==
    IF i > Len(serialised) THEN [kind |-> "ok", value |-> options_with_pv]
    ELSE LET res == update_pv_for_single_option(serialised[i], interest_rate,
                                                volatility, spot_price)
         IN  PvLoop_SkipsFailures(serialised, i + 1,
                 IF res.kind = "raise" THEN options_with_pv
                 ELSE Append(options_with_pv, res.value),
                 interest_rate, volatility, spot_price)

generate_pv_for_options_Prepends(options_list, interest_rate, volatility, spot_price) ==
    PvLoop_Prepends([i \in 1..Len(options_list) |-> FromOrm(options_list[i])], 1, <<>>,
                    interest_rate, volatility, spot_price)

generate_pv_for_options_SkipsFailures(options_list, interest_rate, volatility, spot_price) ==
    PvLoop_SkipsFailures([i \in 1..Len(options_list) |-> FromOrm(options_list[i])], 1,
                         <<>>, interest_rate, volatility, spot_price)

\* generate_pv_for_options(options_list, interest_rate, volatility, spot_price)
generate_pv_for_options(options_list, interest_rate, volatility, spot_price) ==
    PvLoop([i \in 1..Len(options_list) |-> FromOrm(options_list[i])], 1, <<>>,
           interest_rate, volatility, spot_price)

----------------------------------------------------------------------------
(* Expiry resolution on its own: the inputs are drawn by the initial       *)
(* state, ResolveExpiry applies the hook to them.                          *)

NoResp == [kind |-> "none"]

EmptyStore == <<>>

NoCall == [op |-> "none"]

Digit2 == {<<DigitChars[i], DigitChars[j]>> : i, j \in 1..10}

\* month abbreviations as written, upper-cased and lower-cased, and two
\* prefixes that are no month
MonthSpellings ==
    {Months[i] : i \in 1..12} \cup {StrUpper(Months[i]) : i \in 1..12}
      \cup {StrCasefold(Months[i]) : i \in 1..12}
      \cup {<<"X","y","z">>, <<"J","a","_">>}

YearSpellings == Digit2 \cup {<<"2","x">>, <<"_","4">>, <<"4"," ">>, <<" ","4">>}

ExpiryCodes ==
    {p \o q : p \in MonthSpellings, q \in YearSpellings}
      \cup {<<>>, <<"J","a","n","4">>, <<"J","a","n","u","a","r","y","2","4">>}

ExpiryCommodities == {BRN, HH, StrCasefold(BRN), <<"A","B","C">>, <<>>}

At(y, m, d, tod) == [day |-> Ordinal([y |-> y, m |-> m, d |-> d]), tod |-> tod]

ExpiryInstants ==
    {At(1999, 1, 1, 0), At(2023, 11, 1, 1), At(2023, 11, 29, 1),
     At(2023, 11, 30, 0), At(2100, 1, 1, 0)}

InitExpiry ==
    /\ now \in ExpiryInstants
    /\ store = EmptyStore
    /\ resp = NoResp
    /\ memo = NoCall
    /\ \E c \in ExpiryCommodities, e \in ExpiryCodes :
          call = [op |-> "get_last_business_day", commodity |-> c, expires_on |-> e]

ResolveExpiry ==
    /\ call.op = "get_last_business_day"
    /\ resp = NoResp
    /\ resp' = get_last_business_day(call.commodity, call.expires_on, now)
    /\ UNCHANGED <<now, store, call, memo>>

NextExpiry == ResolveExpiry

SpecExpiry == InitExpiry /\ [][NextExpiry]_vars

----------------------------------------------------------------------------
(* Claims on expiry resolution, under SpecExpiry.                          *)

Resolved == call.op = "get_last_business_day" /\ resp # NoResp

Supported(commodity) == commodity \in {BRN, HH}

\* the contract-month codes the specification calls parseable: a month
\* abbreviation in any letter case, then anything, then two digits
CodeMonth(e) == IndexIn(StrCapitalize(StrPrefix(e, 3)), Months)

CodeHasYear(e) == StrSuffix(e, 2) \in Digit2

CodeYear(e) ==
    2000 + 10 * (IndexIn(e[Len(e) - 1], DigitChars) - 1)
         + (IndexIn(e[Len(e)], DigitChars) - 1)

Parseable(e) == Len(e) >= 5 /\ CodeMonth(e) > 0 /\ CodeHasYear(e)

\* the target month of the specification: m-2 for BRN, m-1 for HH, a month
\* below 1 becoming month+12 of the previous year
TargetMonth(commodity, m, y) ==
    LET k == IF commodity = BRN THEN m - 2 ELSE m - 1
    IN  IF k < 1 THEN [month |-> k + 12, year |-> y - 1]
        ELSE [month |-> k, year |-> y]

\* date is the latest Monday-to-Friday day of month m of year y
LatestWeekdayOf(date, y, m) ==
    /\ date.y = y /\ date.m = m
    /\ date.d \in 1..get_last_day_of_month(y, m)
    /\ Weekday(date) < 5
    /\ \A d \in (date.d + 1)..get_last_day_of_month(y, m) :
          Weekday([y |-> y, m |-> m, d |-> d]) >= 5

\* C1: for BRN and HH, every parseable contract-month code and every now, a
\* date returned by get_last_business_day is never a Saturday or a Sunday.
C1_NeverWeekend ==
    (Resolved /\ resp.kind = "ok") => Weekday(resp.date) \in 0..4

\* a resolved BRN code whose target month ends on a weekend
C1_Witness ==
    /\ Resolved /\ resp.kind = "ok" /\ call.commodity = BRN
    /\ Weekday([resp.date EXCEPT
                  !.d = get_last_day_of_month(resp.date.y, resp.date.m)]) = 5

Jan24 == <<"J","a","n","2","4">>

\* C2: for every parseable contract month and now before the computed date,
\* get_last_business_day returns the latest Monday-to-Friday day of the target
\* month (m-2 for BRN, m-1 for HH, wrapping into the previous year), at most
\* 2 days before the last calendar day of that month; BRN/Jan24 at 2023-11-01
\* gives 2023-11-30.
C2_LatestWeekdayOfTargetMonth ==
    /\ (Resolved /\ Supported(call.commodity) /\ Parseable(call.expires_on)) =>
          LET e == call.expires_on
              t == TargetMonth(call.commodity, CodeMonth(e), CodeYear(e))
              last == get_last_day_of_month(t.year, t.month)
          IN  /\ resp.kind = "ok" =>
                    /\ LatestWeekdayOf(resp.date, t.year, t.month)
                    /\ last - resp.date.d \in 0..2
              /\ resp.kind = "raise" =>
                    /\ resp.msg = MsgPastExpiry
                    /\ \E d \in (last - 2)..last :
                          /\ LatestWeekdayOf([y |-> t.year, m |-> t.month, d |-> d],
                                             t.year, t.month)
                          /\ DatetimeLE([y |-> t.year, m |-> t.month, d |-> d], now)
    /\ (Resolved /\ call.commodity = BRN /\ call.expires_on = Jan24
          /\ now = At(2023, 11, 1, 1)) =>
          resp = [kind |-> "ok", date |-> [y |-> 2023, m |-> 11, d |-> 30]]

\* BRN/Jan00 resolved from 1999: the target month wraps into the previous year
C2_Witness ==
    /\ Resolved /\ call.commodity = BRN
    /\ call.expires_on = <<"J","a","n","0","0">>
    /\ resp = [kind |-> "ok", date |-> [y |-> 1999, m |-> 11, d |-> 30]]

\* C4 as stated: for every commodity outside {BRN, HH}, whatever the
\* contract month and now, get_last_business_day fails with InvalidCommodity.
C4_AlwaysInvalidCommodity ==
    (Resolved /\ ~Supported(call.commodity)) =>
        resp = [kind |-> "raise", exc |-> "ValueError", msg |-> MsgInvalidCommodity]

\* C4 amended: for every commodity outside {BRN, HH}, whatever the contract
\* month and now, get_last_business_day fails and sets no expiration date; the
\* failure is InvalidCommodity when the contract-month code is parseable, and
\* the KeyError of the month lookup when its first 3 characters are no month.
C4_UnsupportedCommodityFails ==
    (Resolved /\ ~Supported(call.commodity)) =>
        /\ resp.kind = "raise"
        /\ Parseable(call.expires_on) =>
              resp = [kind |-> "raise", exc |-> "ValueError",
                      msg |-> MsgInvalidCommodity]
        /\ CodeMonth(call.expires_on) = 0 => resp.exc = "KeyError"

\* commodity ABC with a parseable code is refused as an invalid commodity
C4_Witness ==
    /\ Resolved /\ call.commodity = <<"A","B","C">> /\ call.expires_on = Jan24
    /\ resp.kind = "raise" /\ resp.msg = MsgInvalidCommodity

----------------------------------------------------------------------------
(* The clock.                                                              *)

\* datetime.now() when the model starts: 2023-11-29 00:00
StartInstant == At(2023, 11, 29, 0)

\* days the clock may advance
MaxDays == 2

\* time passes: later the same day, or midnight of the next day
Tick ==
    /\ \/ now.tod = 0 /\ now' = [now EXCEPT !.tod = 1]
       \/ now.day < StartInstant.day + MaxDays
            /\ now' = [day |-> now.day + 1, tod |-> 0]
    /\ UNCHANGED <<store, resp, call, memo>>

\* (interest_rate, volatility, spot_price) of a valuation query
MarketParameters == {<<20, 30, 7894>>, <<5, 25, 12000>>}

----------------------------------------------------------------------------
(* data_persistence/schemas.py, data_persistence/repo.py, black76_api.py   *)

MsgUnknownCommodity == "Unknown Commodity. Accepted commodities are: BRN or HH"

MsgInvalidOptionType == "Invalid Option Type. Allowed values: Call or Put."

MsgNegativeStrike == "Strike price cannot be less than 0."

\* FinancialOptionCreate.validate_fields(values)
validate_fields(values) ==
    IF StrUpper(values.commodity) \notin {BRN, HH}
    THEN [kind |-> "raise", exc |-> "ValueError", msg |-> MsgUnknownCommodity]
    ELSE IF StrUpper(values.option_type) \notin {StrUpper(CallStr), StrUpper(Put)}
    THEN [kind |-> "raise", exc |-> "ValueError", msg |-> MsgInvalidOptionType]
    ELSE IF values.strike_price < 0
    THEN [kind |-> "raise", exc |-> "ValueError", msg |-> MsgNegativeStrike]
    ELSE [kind |-> "ok"]

Max(S) == CHOOSE x \in S : \A y \in S : y <= x

\* the ids of a set in ascending order, the order the table is scanned in
RECURSIVE Ascending(_)
Ascending(ids) ==
    IF ids = {} THEN <<>>
    ELSE Append(Ascending(ids \ {Max(ids)}), Max(ids))

\* an id allocated as the number of rows plus one
NewId_CountsRows(table) == Cardinality(DOMAIN table) + 1

\* the id commit() gives a new row: one more than the largest id in the table
NewId(table) == IF DOMAIN table = {} THEN 1 ELSE Max(DOMAIN table) + 1

\* table with row added under its id
Insert(table, row) ==
    [id \in DOMAIN table \cup {row.id} |-> IF id = row.id THEN row ELSE table[id]]

\* repo.add_financial_option(db_session, f_option): the FinancialOption
\* constructor sets commodity, then expires_on through its validates hook,
\* then the other fields; add, commit and refresh give the stored row
add_financial_option(table, f_option, instant) ==
    LET hook == get_last_business_day(f_option.commodity, f_option.expires_on,
                                      instant)
    IN  IF hook.kind = "raise" THEN hook
        ELSE LET new_option == [id |-> NewId(table),
                                commodity |-> f_option.commodity,
                                expires_on |-> f_option.expires_on,
                                strike_price |-> f_option.strike_price,
                                option_type |-> f_option.option_type,
                                unit_of_measure |-> f_option.unit_of_measure,
                                expiration_date |-> hook.date]
             IN  [kind |-> "ok", value |-> new_option,
                  table |-> Insert(table, new_option)]

\* repo.get_financial_options_by_name(db_session, asset_name)
get_financial_options_by_name(table, asset_name) ==
    LET ids == Ascending({id \in DOMAIN table : table[id].commodity = asset_name})
    IN  [i \in 1..Len(ids) |-> table[ids[i]]]

\* repo.get_all_financial_options(db_session, skip, limit)
get_all_financial_options(table, skip, limit) ==
    LET ids == Ascending(DOMAIN table)
        last == IF skip + limit < Len(ids) THEN skip + limit ELSE Len(ids)
    IN  [i \in 1..(IF last > skip THEN last - skip ELSE 0) |-> table[ids[skip + i]]]

\* the FinancialOption response schema of a stored row
Presented(row) == [row EXCEPT !.id = IntToStr(row.id)]

InternalServerError == [status |-> 500, detail |-> "Internal Server Error"]

\* ids a row may get
MaxId == 2

Abc == <<"A","B","C">>

Apr23 == <<"A","p","r","2","3">>

\* request bodies of POST /market_options; validation does not read
\* expires_on, so the bodies it rejects are sent with one contract month
CreateRequests ==
    {r \in [commodity : {BRN, HH, StrCasefold(BRN), Abc},
            expires_on : {Jan24, Apr23, <<"X","y","z","2","4">>,
                          <<"J","a","n","2","x">>},
            strike_price : {-1200, 0, 10000},
            option_type : {StrCapitalize(CallStr), <<"T","E","S","T">>},
            unit_of_measure : {<<"U","S","D">>}] :
        r.expires_on = Jan24 \/ validate_fields(r).kind = "ok"}

\* POST /market_options: the request body is validated, then create_option
\* runs; an exception it does not catch is answered with 500
create_option(new_option) ==
    \E checked \in {validate_fields(new_option)},
       added \in {add_financial_option(store, new_option, now)} :
        /\ call' = [op |-> "create_option", new_option |-> new_option]
        /\ IF checked.kind = "raise"
           THEN /\ resp' = [status |-> 422,
                            detail |-> <<[msg |-> checked.msg, type |-> "value_error"]>>]
                /\ store' = store
           ELSE IF added.kind = "raise"
           THEN /\ resp' = IF added.exc = "ValueError"
                           THEN [status |-> 422, detail |-> added.msg]
                           ELSE InternalServerError
                /\ store' = store
           ELSE /\ added.value.id <= MaxId
                /\ resp' = [status |-> 201, body |-> Presented(added.value)]
                /\ store' = added.table
        /\ UNCHANGED <<now, memo>>

CreateOption == \E new_option \in CreateRequests : create_option(new_option)

\* GET /market_options with the default skip and limit
GetAllOptions ==
    \E options \in {get_all_financial_options(store, 0, 100)} :
        /\ call' = [op |-> "get_all_options"]
        /\ resp' = [status |-> 200,
                    body |-> [i \in 1..Len(options) |-> Presented(options[i])]]
        /\ UNCHANGED <<now, store, memo>>

\* GET /market_options/{m_option_id}
GetSingleOption ==
    \E m_option_id \in 1..MaxId :
        /\ call' = [op |-> "get_single_option"]
        /\ resp' = IF m_option_id \in DOMAIN store
                   THEN [status |-> 200, body |-> Presented(store[m_option_id])]
                   ELSE [status |-> 404, detail |-> "Option not found"]
        /\ UNCHANGED <<now, store, memo>>

\* repo.remove_option(db_session, f_option_id), committed by its caller
RemoveOption ==
    \E f_option_id \in 1..MaxId :
        /\ call' = [op |-> "remove_option"]
        /\ resp' = [kind |-> "ok",
                    value |-> IF f_option_id \in DOMAIN store THEN 1 ELSE 0]
        /\ store' = [id \in DOMAIN store \ {f_option_id} |-> store[id]]
        /\ UNCHANGED <<now, memo>>

\* POST /market_options/pv
CalculatePresentValue ==
    \E commodity \in {BRN, HH, Abc}, mp \in MarketParameters :
        \E current_options \in {get_financial_options_by_name(store, commodity)} :
        \E updated_options \in {generate_pv_for_options(current_options,
                                                        mp[1], mp[2], mp[3])} :
            /\ call' = [op |-> "calculate_present_value", commodity |-> commodity,
                        interest_rate |-> mp[1], volatility |-> mp[2],
                        spot_price |-> mp[3]]
            /\ resp' = IF current_options = <<>>
                       THEN [status |-> 404, detail |-> "No options exist."]
                       ELSE IF updated_options.kind = "raise"
                       THEN InternalServerError
                       ELSE [status |-> 200, body |-> updated_options.value]
            /\ UNCHANGED <<now, store, memo>>

Init ==
    /\ now = StartInstant
    /\ store = EmptyStore
    /\ resp = NoResp
    /\ call = NoCall
    /\ memo = NoCall

Next ==
    \/ CreateOption
    \/ GetAllOptions
    \/ GetSingleOption
    \/ RemoveOption
    \/ CalculatePresentValue
    \/ Tick

Spec == Init /\ [][Next]_vars

----------------------------------------------------------------------------
(* Claims on the stored records and on the create operation, under Spec.   *)

\* the latest Monday-to-Friday day of the target month of a parseable code;
\* it is one of the last 7 days of the month
ExpectedExpiry(commodity, e) ==
    LET t == TargetMonth(commodity, CodeMonth(e), CodeYear(e))
    IN  [y |-> t.year, m |-> t.month,
         d |-> CHOOSE d \in (get_last_day_of_month(t.year, t.month) - 6)
                               ..get_last_day_of_month(t.year, t.month) :
                  LatestWeekdayOf([y |-> t.year, m |-> t.month, d |-> d],
                                  t.year, t.month)]

\* C3: the expiration date of a record is the date resolved at its creation
\* and is strictly later than the creation instant; no create, read, valuation
\* or delete changes the expiration date of a record that stays stored.
C3_ExpirationFixedAtCreation ==
    [][/\ \A id \in DOMAIN store \cap DOMAIN store' :
             store'[id].expiration_date = store[id].expiration_date
       /\ \A id \in DOMAIN store' \ DOMAIN store :
             /\ store'[id].expiration_date =
                   ExpectedExpiry(store'[id].commodity, store'[id].expires_on)
             /\ Ordinal(store'[id].expiration_date) > now.day]_vars

\* a record still stored, with the date resolved at its creation, when that
\* date has passed and after a valuation has read it
C3_Witness ==
    /\ call.op = "calculate_present_value" /\ resp.status = 200
    /\ \E id \in DOMAIN store :
          /\ store[id].expiration_date = [y |-> 2023, m |-> 11, d |-> 30]
          /\ Ordinal(store[id].expiration_date) < now.day

\* a step of create_option on a body that passes validation, of a supported
\* commodity and with a parseable contract month
CreateResolves ==
    /\ now' = now
    /\ call'.op = "create_option"
    /\ validate_fields(call'.new_option).kind = "ok"
    /\ Supported(call'.new_option.commodity)
    /\ Parseable(call'.new_option.expires_on)

C6_MalformedContractMonthIs422 ==
    (/\ call.op = "create_option"
     /\ validate_fields(call.new_option).kind = "ok"
     /\ ~Parseable(call.new_option.expires_on)) => resp.status = 422

----------------------------------------------------------------------------
(* Pricing on its own: calculate_pv called with inputs of the caller's     *)
(* choice while time passes. memo keeps one earlier call.                  *)

Straddle == <<"S","T","R","A","D","D","L","E">>

PricingTypes == {CallStr, StrCapitalize(CallStr), StrUpper(Put), Straddle}

PricingInputs ==
    [expiration_date : {[y |-> 2023, m |-> 11, d |-> 30],
                        [y |-> 2023, m |-> 12, d |-> 29]},
     strike_price : {0, 10000},
     option_type : PricingTypes,
     interest_rate : {20},
     volatility : {30},
     spot_price : {7894, 12000}]

InitPricing ==
    /\ now = StartInstant
    /\ store = EmptyStore
    /\ resp = NoResp
    /\ call = NoCall
    /\ memo = NoCall

\* a call of PVService.calculate_pv; the call it replaces may be kept in memo
PriceOption ==
    \E in \in PricingInputs :
        /\ call' = [op |-> "calculate_pv", in |-> in, day |-> now.day]
        /\ resp' = calculate_pv(in)
        /\ \/ memo' = memo
           \/ /\ call.op = "calculate_pv"
              /\ memo' = [op |-> "calculate_pv", in |-> call.in, day |-> call.day,
                          out |-> resp]
        /\ UNCHANGED <<now, store>>

NextPricing == PriceOption \/ Tick

SpecPricing == InitPricing /\ [][NextPricing]_vars

Priced == call.op = "calculate_pv"

\* C7 as stated: calculate_pv fails with UnknownOptionType exactly when the
\* option type, compared case-insensitively, is neither call nor put; any
\* casing of call takes the call branch and any casing of put the put branch,
\* for all values of the other inputs.
C7_UnknownOptionTypeExactly ==
    Priced =>
        LET type == StrCasefold(call.in.option_type) IN
        /\ type \notin {CallStr, Put} <=>
              resp = [kind |-> "raise", exc |-> "ValueError",
                      msg |-> MsgUnknownOptionType]
        /\ type = CallStr => (resp.kind = "ok" /\ resp.branch = "call")
        /\ type = Put => (resp.kind = "ok" /\ resp.branch = "put")

\* two present values that may be the same number: equal, or one of them a
\* closed form this model does not evaluate
MayBeEqual(a, b) ==
    \/ a = b
    \/ a.kind = "ok" /\ b.kind = "ok"
         /\ (a.value.t = "black76" \/ b.value.t = "black76")
         /\ a.branch = b.branch

----------------------------------------------------------------------------
(* Batch valuation on its own: generate_pv_for_options called with a list  *)
(* of records of the caller's choice.                                      *)

\* longest list handed to generate_pv_for_options
MaxBatch == 2

Option(id, commodity, expires_on, strike_price, option_type, expiration_date) ==
    [id |-> id, commodity |-> commodity, expires_on |-> expires_on,
     strike_price |-> strike_price, option_type |-> option_type,
     unit_of_measure |-> <<"U","S","D">>, expiration_date |-> expiration_date]

Mar24 == <<"M","a","r","2","4">>

\* two records that price, one with strike 0 and one with an unknown type
BatchRecords ==
    {Option(1, BRN, Jan24, 10000, StrCapitalize(CallStr), [y |-> 2023, m |-> 11, d |-> 30]),
     Option(2, HH, Mar24, 1000, StrCapitalize(Put), [y |-> 2024, m |-> 2, d |-> 29]),
     Option(3, BRN, Jan24, 0, StrCapitalize(CallStr), [y |-> 2023, m |-> 11, d |-> 30]),
     Option(4, HH, Mar24, 1000, Straddle, [y |-> 2024, m |-> 2, d |-> 29])}

BatchLists == UNION {[1..n -> BatchRecords] : n \in 0..MaxBatch}

InitBatch ==
    /\ now = StartInstant
    /\ store = EmptyStore
    /\ resp = NoResp
    /\ call = NoCall
    /\ memo = NoCall

GeneratePv ==
    \E options_list \in BatchLists, mp \in MarketParameters :
        /\ call' = [op |-> "generate_pv_for_options", options_list |-> options_list,
                    interest_rate |-> mp[1], volatility |-> mp[2],
                    spot_price |-> mp[3], day |-> now.day]
        /\ resp' = generate_pv_for_options(options_list, mp[1], mp[2], mp[3])
        /\ UNCHANGED <<now, store, memo>>

NextBatch == GeneratePv \/ Tick

SpecBatch == InitBatch /\ [][NextBatch]_vars

\* the last call was a batch valuation and was made today
Valued == call.op = "generate_pv_for_options" /\ call.day = now.day

\* the pricing of one record under the market parameters of the call, today
PriceOf(option) ==
    calculate_pv([expiration_date |-> option.expiration_date,
                  strike_price |-> option.strike_price,
                  option_type |-> option.option_type,
                  interest_rate |-> call.interest_rate,
                  volatility |-> call.volatility,
                  spot_price |-> call.spot_price])

\* C8: for every non-empty list of records that all price,
\* generate_pv_for_options returns a list of the same length whose i-th result
\* carries the id and fields of the i-th record, the three market parameters of
\* the call and the present value priced from that record's own expiration
\* date, strike price and option type.
C8_BatchKeepsOrderAndLength ==
    (Valued /\ call.options_list # <<>>
       /\ \A i \in 1..Len(call.options_list) :
             PriceOf(call.options_list[i]).kind = "ok") =>
        /\ resp.kind = "ok"
        /\ Len(resp.value) = Len(call.options_list)
        /\ \A i \in 1..Len(call.options_list) :
              LET o == call.options_list[i]
                  r == resp.value[i]
              IN  /\ r.id = IntToStr(o.id)
                  /\ r.commodity = o.commodity
                  /\ r.expires_on = o.expires_on
                  /\ r.strike_price = o.strike_price
                  /\ r.option_type = o.option_type
                  /\ r.unit_of_measure = o.unit_of_measure
                  /\ r.expiration_date = o.expiration_date
                  /\ r.interest_rate = call.interest_rate
                  /\ r.volatility = call.volatility
                  /\ r.spot_price = call.spot_price
                  /\ r.pv = PriceOf(o).value

\* a list of two different records, both priced
C8_Witness ==
    /\ Valued /\ Len(call.options_list) = 2 /\ resp.kind = "ok"
    /\ call.options_list[1].id = 2 /\ call.options_list[2].id = 1
    /\ Len(resp.value) = 2 /\ resp.value[1].pv # resp.value[2].pv

\* C9: if pricing fails for any one record of the list, at any position,
\* generate_pv_for_options fails as a whole and returns no list, not the
\* results of the records before or after the failing one.
C9_OneFailureFailsBatch ==
    (Valued /\ \E i \in 1..Len(call.options_list) :
                  PriceOf(call.options_list[i]).kind = "raise") =>
        resp.kind = "raise"

\* a list whose second record fails to price after the first was priced, and
\* the batch raised
C9_Witness ==
    /\ Valued /\ Len(call.options_list) = 2 /\ resp.kind = "raise"
    /\ PriceOf(call.options_list[1]).kind = "ok"
    /\ PriceOf(call.options_list[2]).kind = "raise"

----------------------------------------------------------------------------
(* Concurrent batch valuation: several invocations of                      *)
(* generate_pv_for_options run interleaved, one statement at a time, over   *)
(* the same records, within one calendar day. store is the heap of objects *)
(* by reference, call the frame of each invocation, resp what it returned. *)

\* invocations running at once
MaxInvocations == 2

Invocations == 1..MaxInvocations

\* the records the invocations are handed: two that price, one that does not
ConcurrentRecords ==
    <<Option(1, BRN, Jan24, 10000, StrCapitalize(CallStr), [y |-> 2023, m |-> 11, d |-> 30]),
      Option(2, HH, Mar24, 1000, StrCapitalize(Put), [y |-> 2024, m |-> 2, d |-> 29]),
      Option(3, HH, Mar24, 1000, Straddle, [y |-> 2024, m |-> 2, d |-> 29])>>

\* the reference of the i-th input record
InputRef(i) == <<0, i>>

\* options_list of an invocation: references to input records
ConcurrentLists == {<<InputRef(1), InputRef(2)>>, <<InputRef(2), InputRef(3)>>}

\* from_orm handing out one schema object per record, whoever asks
NewObject_Cached(p, k, record) == <<-1, record[2]>>

\* the reference of the object from_orm creates for the k-th record of
\* invocation p: a new object on every call
NewObject(p, k, record) == <<p, k>>

\* heap with obj placed at ref
Allocate(heap, ref, obj) ==
    [r \in DOMAIN heap \cup {ref} |-> IF r = ref THEN obj ELSE heap[r]]

IdleFrame == [pc |-> "idle"]

\* the assignments of update_pv_for_single_option, in order, and what follows
AfterStatement ==
    [volatility |-> "interest_rate", interest_rate |-> "spot_price",
     spot_price |-> "pv", pv |-> "append"]

InitConcurrent ==
    /\ now = StartInstant
    /\ store = [ref \in {InputRef(i) : i \in 1..Len(ConcurrentRecords)} |->
                   ConcurrentRecords[ref[2]]]
    /\ resp = [p \in Invocations |-> NoResp]
    /\ call = [p \in Invocations |-> IdleFrame]
    /\ memo = NoCall

\* generate_pv_for_options is entered: options_with_pv = []
Invoke(p) ==
    /\ call[p].pc = "idle"
    /\ \E options_list \in ConcurrentLists, mp \in MarketParameters :
          call' = [call EXCEPT ![p] =
                      [pc |-> "from_orm", options_list |-> options_list,
                       interest_rate |-> mp[1], volatility |-> mp[2],
                       spot_price |-> mp[3], serialised_options_list |-> <<>>,
                       options_with_pv |-> <<>>, i |-> 1,
                       present_value |-> Num(0)]]
    /\ UNCHANGED <<now, store, resp, memo>>

\* one element of the list comprehension: from_orm(option) reads the record
\* and gives a schema object
SerialiseOption(p) ==
    /\ call[p].pc = "from_orm"
    /\ LET f == call[p]
           k == Len(f.serialised_options_list) + 1
           ref == NewObject(p, k, f.options_list[k])
       IN  /\ store' = Allocate(store, ref, FromOrm(store[f.options_list[k]]))
           /\ call' = [call EXCEPT
                  ![p].serialised_options_list = Append(@, ref),
                  ![p].pc = IF k = Len(f.options_list) THEN "calculate_pv"
                            ELSE "from_orm"]
    /\ UNCHANGED <<now, resp, memo>>

\* update_pv_for_single_option up to present_value = calculate_pv(...); an
\* exception leaves generate_pv_for_options
CalculatePv(p) ==
    /\ call[p].pc = "calculate_pv"
    /\ LET f == call[p]
           option == store[f.serialised_options_list[f.i]]
       IN  \E present_value \in
                 {calculate_pv([expiration_date |-> option.expiration_date,
                                strike_price |-> option.strike_price,
                                option_type |-> option.option_type,
                                interest_rate |-> f.interest_rate,
                                volatility |-> f.volatility,
                                spot_price |-> f.spot_price])} :
              IF present_value.kind = "raise"
              THEN /\ resp' = [resp EXCEPT ![p] = present_value]
                   /\ call' = [call EXCEPT ![p].pc = "done"]
              ELSE /\ resp' = resp
                   /\ call' = [call EXCEPT
                          ![p].present_value = present_value.value,
                          ![p].pc = "volatility"]
    /\ UNCHANGED <<now, store, memo>>

\* option.volatility = volatility; option.interest_rate = interest_rate;
\* option.spot_price = spot_price; option.pv = present_value, one at a time
AssignField(p) ==
    /\ call[p].pc \in DOMAIN AfterStatement
    /\ LET f == call[p]
           ref == f.serialised_options_list[f.i]
           value == IF f.pc = "pv" THEN f.present_value ELSE f[f.pc]
       IN  /\ store' = [store EXCEPT ![ref][f.pc] = value]
           /\ call' = [call EXCEPT ![p].pc = AfterStatement[f.pc]]
    /\ UNCHANGED <<now, resp, memo>>

\* options_with_pv.append(res) and the next turn of the for loop
AppendResult(p) ==
    /\ call[p].pc = "append"
    /\ LET f == call[p] IN
          call' = [call EXCEPT
              ![p].options_with_pv = Append(@, f.serialised_options_list[f.i]),
              ![p].i = @ + 1,
              ![p].pc = IF f.i = Len(f.serialised_options_list) THEN "return"
                        ELSE "calculate_pv"]
    /\ UNCHANGED <<now, store, resp, memo>>

\* return options_with_pv
Return(p) ==
    /\ call[p].pc = "return"
    /\ resp' = [resp EXCEPT ![p] = [kind |-> "ok", value |-> call[p].options_with_pv]]
    /\ call' = [call EXCEPT ![p].pc = "done"]
    /\ UNCHANGED <<now, store, memo>>

NextConcurrent ==
    \E p \in Invocations :
        \/ Invoke(p)
        \/ SerialiseOption(p)
        \/ CalculatePv(p)
        \/ AssignField(p)
        \/ AppendResult(p)
        \/ Return(p)

SpecConcurrent == InitConcurrent /\ [][NextConcurrent]_vars

\* invocation p has returned its list
Returned(p) == call[p].pc = "done" /\ resp[p].kind = "ok"

\* what invocation p is to return for input record o
ExpectedResult(p, o) ==
    [FromOrm(o) EXCEPT
        !.interest_rate = call[p].interest_rate,
        !.volatility = call[p].volatility,
        !.spot_price = call[p].spot_price,
        !.pv = calculate_pv([expiration_date |-> o.expiration_date,
                             strike_price |-> o.strike_price,
                             option_type |-> o.option_type,
                             interest_rate |-> call[p].interest_rate,
                             volatility |-> call[p].volatility,
                             spot_price |-> call[p].spot_price]).value]

\* C11: invocations of generate_pv_for_options running concurrently over the
\* same input records, each with its own market parameters, do not interfere:
\* in every interleaving the input records are left as they were, and the
\* objects an invocation has returned carry, and keep carrying while the
\* others run, its own interest rate, volatility, spot price and the present
\* value computed from them.
C11_InvocationsDoNotInterfere ==
    /\ \A i \in 1..Len(ConcurrentRecords) :
          store[InputRef(i)] = ConcurrentRecords[i]
    /\ \A p \in Invocations :
          Returned(p) =>
             /\ Len(resp[p].value) = Len(call[p].options_list)
             /\ \A k \in 1..Len(resp[p].value) :
                   store[resp[p].value[k]] =
                      ExpectedResult(p, ConcurrentRecords[call[p].options_list[k][2]])

\* two invocations over the same two records with different market
\* parameters, the first returned while the second is still assigning
C11_Witness ==
    /\ Returned(1) /\ call[2].pc = "spot_price" /\ call[2].i = 2
    /\ call[1].options_list = call[2].options_list
    /\ call[1].spot_price # call[2].spot_price
    /\ store[resp[1].value[1]].pv # store[call[2].options_with_pv[1]].pv

----------------------------------------------------------------------------
(* Request validation of the create operation, under Spec.                 *)

\* the 422 answer pydantic gives for a ValueError of the root validator
ValidationError(msg) ==
    [status |-> 422, detail |-> <<[msg |-> msg, type |-> "value_error"]>>]

\* C12 as stated: a create request is rejected with a 422 validation error,
\* and the stored records are left unchanged, when its commodity is not BRN or
\* HH (message Unknown Commodity), else when its option type compared
\* case-insensitively is not CALL or PUT (message Invalid Option Type), else
\* when its strike price is below 0 (message Strike price cannot be less than
\* 0); the first failing check determines the message.
C12_RejectedInOrder ==
    [][call'.op = "create_option" =>
         \E body \in {call'.new_option} :
            /\ body.commodity \notin {BRN, HH} =>
                  /\ resp' = ValidationError(MsgUnknownCommodity)
                  /\ store' = store
            /\ (/\ body.commodity \in {BRN, HH}
                /\ StrUpper(body.option_type) \notin {StrUpper(CallStr), StrUpper(Put)}) =>
                  /\ resp' = ValidationError(MsgInvalidOptionType)
                  /\ store' = store
            /\ (/\ body.commodity \in {BRN, HH}
                /\ StrUpper(body.option_type) \in {StrUpper(CallStr), StrUpper(Put)}
                /\ body.strike_price < 0) =>
                  /\ resp' = ValidationError(MsgNegativeStrike)
                  /\ store' = store]_vars

----------------------------------------------------------------------------
(* Failures of pricing, under SpecBatch.                                   *)

\* C13 as stated: for an option type that is call or put in any casing and a
\* strike price >= 0, whatever the other numbers, calculate_pv returns a
\* number and raises nothing, so a list of records that pass the validation of
\* the create operation (strike price 0 included) never makes
\* generate_pv_for_options fail.
C13_AcceptedRecordsNeverFailBatch ==
    (Valued /\ \A i \in 1..Len(call.options_list) :
                  validate_fields(call.options_list[i]).kind = "ok") =>
        /\ resp.kind = "ok"
        /\ \A i \in 1..Len(call.options_list) :
              PriceOf(call.options_list[i]).kind = "ok"

----------------------------------------------------------------------------
(* Validation against expiry resolution, under Spec.                       *)

\* C14 as stated: request validation and expiry resolution accept the same
\* commodities: a create request that passes validation and whose contract
\* month is parseable is stored when the month resolves to a future date and
\* is refused with PastExpiry otherwise; the InvalidCommodity failure of
\* expiry resolution is never reached from the create operation.
C14_ValidationAndResolutionAgree ==
    (/\ call.op = "create_option"
     /\ validate_fields(call.new_option).kind = "ok"
     /\ Parseable(call.new_option.expires_on)) =>
        /\ resp # [status |-> 422, detail |-> MsgInvalidCommodity]
        /\ \/ resp = [status |-> 422, detail |-> MsgPastExpiry]
           \/ /\ resp.status = 201
              /\ \E id \in DOMAIN store : Presented(store[id]) = resp.body

----------------------------------------------------------------------------
(* The time to expiry on its own: get_time_to_expiry called with dates of  *)
(* the caller's choice while time passes.                                  *)

\* the expiry dates asked about: every day of two months around the clock
TimeDates ==
    {date \in [y : {2023}, m : {11, 12}, d : 1..31] :
        date.d <= get_last_day_of_month(date.y, date.m)}

InitTime ==
    /\ now = StartInstant
    /\ store = EmptyStore
    /\ resp = NoResp
    /\ call = NoCall
    /\ memo = NoCall

\* a call of PVService.get_time_to_expiry
TimeToExpiry ==
    \E expiry_date \in TimeDates :
        /\ call' = [op |-> "get_time_to_expiry", expiry_date |-> expiry_date,
                    day |-> now.day]
        /\ resp' = [kind |-> "ok", value |-> get_time_to_expiry(expiry_date)]
        /\ UNCHANGED <<now, store, memo>>

NextTime == TimeToExpiry \/ Tick

SpecTime == InitTime /\ [][NextTime]_vars

Timed == call.op = "get_time_to_expiry"

\* whole days from the day of the call to the expiry date
DaysToExpiry == Ordinal(call.expiry_date) - call.day

\* T is the hundredth nearest to days / 365 (there is no tie, 365 is odd)
NearestHundredth(T, days) ==
    /\ 365 * T.h - 100 * days <= 182
    /\ 100 * days - 365 * T.h <= 182

\* volatilities of the valuation queries, all positive
Volatilities == {mp[2] : mp \in MarketParameters}

\* C15 as stated: the time to expiry is the whole-day difference between the
\* expiration date and today divided by 365 and rounded to 2 decimals, and for
\* every expiration date strictly after today it is strictly positive, so the
\* divisor volatility * sqrt(T) of d1 is non-zero whenever volatility > 0.
C15_PositiveWhenAfterToday ==
    Timed =>
        /\ NearestHundredth(resp.value, DaysToExpiry)
        /\ DaysToExpiry > 0 =>
              /\ resp.value.h > 0
              /\ \A volatility \in Volatilities :
                    DivisorClass(volatility, resp.value) = "nonzero"

\* C15 amended: the time to expiry is the whole-day difference divided by 365
\* and rounded to 2 decimals; it is strictly positive exactly when the
\* expiration date is at least 2 days after today, and then the divisor
\* volatility * sqrt(T) is non-zero for volatility > 0; for an expiration date
\* today or tomorrow it is 0.0 and the divisor is zero, and for one before
\* today it is -0.0 or negative and the divisor is zero or not a number.
C15_PositiveFromTwoDaysAhead ==
    Timed =>
        /\ NearestHundredth(resp.value, DaysToExpiry)
        /\ resp.value.h > 0 <=> DaysToExpiry >= 2
        /\ DaysToExpiry >= 2 =>
              \A volatility \in Volatilities :
                 DivisorClass(volatility, resp.value) = "nonzero"
        /\ DaysToExpiry \in {0, 1} =>
              /\ resp.value = [h |-> 0, negzero |-> FALSE]
              /\ \A volatility \in Volatilities :
                    DivisorClass(volatility, resp.value) = "zero"
        /\ DaysToExpiry < 0 =>
              /\ resp.value.h = 0 => resp.value.negzero
              /\ \A volatility \in Volatilities :
                    DivisorClass(volatility, resp.value) \in {"zero", "nan"}

\* an expiration date that is tomorrow, with a time to expiry of 0.0, asked
\* after the clock has moved to the next day
C15_Witness ==
    /\ Timed /\ DaysToExpiry = 1 /\ resp.value.h = 0
    /\ call.day = now.day /\ now.day > StartInstant.day

====
